---- MODULE Spec2Model ----
(***************************************************************************)
(* Guild tracker (src/tracker.py): repeated invocations of main() against  *)
(* one players.json.  A dict is a sequence of <<key, value>> pairs with    *)
(* distinct keys, in insertion order.  The state file is a sequence of     *)
(* JSON tokens so that a write can be cut short.                           *)
(***************************************************************************)
EXTENDS Integers, Sequences, FiniteSets, TLC

\* ---------------------------------------------------------------- bounds
NumPlayers == 2

NamePool == <<"Alice", "Bob", "Carol", "Dave">>

Names == {NamePool[i] : i \in 1..NumPlayers}

Guilds == {"", "Foo", "Bar"}

VARIABLES
    stateFile,   \* players.json: [exists |-> BOOLEAN, text |-> token sequence]
    pc,          \* position of the current process in main()
    webhook,     \* DISCORD_WEBHOOK_URL is set (truthy) in this process
    current,     \* main: current
    old,         \* main: old
    messages,    \* main: messages
    posts,       \* payloads handed to SESSION.post in this process
    err,         \* what this process printed to stderr
    out,         \* what this process printed to stdout
    exit,        \* exit status of the process that exited last
    loads,       \* calls of load_state in this process
    writes,      \* completed save_state calls in this process
    lastSaved,   \* what the immediately preceding process saved, if it returned 0
    fetches,     \* calls of fetch_html in this process
    watched,     \* the players whose observations are recorded (fixed for a behaviour)
    audited,     \* the players whose deliveries are recorded (fixed for a behaviour)
    lastSeen,    \* watched player -> guild in the last saved snapshot showing it
    lastDelivered \* messages about audited players the preceding process delivered,
                 \* kept until this process starts to write

vars == <<stateFile, pc, webhook, current, old, messages, posts, err, out,
          exit, loads, writes, lastSaved, fetches, watched, audited,
          lastSeen, lastDelivered>>

\* ---------------------------------------------------------------- dicts
Keys(d) == {d[i][1] : i \in DOMAIN d}

Get(d, k, default) ==
    IF k \in Keys(d)
    THEN d[CHOOSE i \in DOMAIN d : d[i][1] = k][2]
    ELSE default

AsMap(d) == [k \in Keys(d) |-> Get(d, k, "")]

Dicts ==
    UNION {{d \in [1..n -> Names \X Guilds] :
               \A i, j \in 1..n : d[i][1] = d[j][1] => i = j} : n \in 0..NumPlayers}

\* ---------------------------------------------------------------- state file
LBrace == <<"{", "{">>

RBrace == <<"}", "}">>

NoFile == [exists |-> FALSE, text |-> <<>>]

RECURSIVE SortedItems(_, _)
SortedItems(data, i) ==
    IF i > Len(NamePool) THEN <<>>
    ELSE (IF NamePool[i] \in Keys(data)
          THEN <<<<NamePool[i], Get(data, NamePool[i], "")>>>>
          ELSE <<>>) \o SortedItems(data, i + 1)

\* Variant: players without a guild are left out of the file.
json_dump_skip_empty(data) ==
    <<LBrace>> \o SelectSeq(SortedItems(data, 1), LAMBDA it : it[2] # "") \o <<RBrace>>

json_dump(data) == <<LBrace>> \o SortedItems(data, 1) \o <<RBrace>>

WellFormed(text) ==
    /\ Len(text) >= 2
    /\ text[1] = LBrace
    /\ text[Len(text)] = RBrace
    /\ \A i \in 2..(Len(text) - 1) : text[i] # LBrace /\ text[i] # RBrace

\* Variant: entries with an empty value are lost on reading.
json_load_nonempty(text) ==
    SelectSeq(SubSeq(text, 2, Len(text) - 1), LAMBDA it : it[2] # "")

json_load(text) == SubSeq(text, 2, Len(text) - 1)

\* ---------------------------------------------------------------- diff
RECURSIVE DiffItems(_, _, _)
DiffItems(oldd, new, i) ==
    IF i > Len(new) THEN <<>>
    ELSE LET name == new[i][1]
             new_guild == new[i][2]
             old_guild == Get(oldd, name, "")
             msg == IF old_guild = new_guild THEN <<>>
                    ELSE IF old_guild = "" /\ new_guild # ""
                         THEN <<<<"beigetreten", name, new_guild>>>>
                    ELSE IF old_guild # "" /\ new_guild = ""
                         THEN <<<<"verlassen", name, old_guild>>>>
                    ELSE IF old_guild # "" /\ new_guild # ""
                         THEN <<<<"gewechselt", name, old_guild, new_guild>>>>
                    ELSE <<>>
         IN msg \o DiffItems(oldd, new, i + 1)

RECURSIVE AbsentItems(_, _, _)
AbsentItems(oldd, new, i) ==
    IF i > Len(oldd) THEN <<>>
    ELSE (IF oldd[i][1] \notin Keys(new) /\ oldd[i][2] # ""
          THEN <<<<"verlassen", oldd[i][1], oldd[i][2]>>>>
          ELSE <<>>) \o AbsentItems(oldd, new, i + 1)

\* Variant: a player missing from the snapshot is reported as having left.
diff_guilds_absent_left(oldd, new) ==
    DiffItems(oldd, new, 1) \o AbsentItems(oldd, new, 1)

RECURSIVE UnchangedItems(_, _, _)
UnchangedItems(oldd, new, i) ==
    IF i > Len(new) THEN <<>>
    ELSE (IF Get(oldd, new[i][1], "") = new[i][2] /\ new[i][2] # ""
          THEN <<<<"gewechselt", new[i][1], new[i][2], new[i][2]>>>>
          ELSE <<>>) \o UnchangedItems(oldd, new, i + 1)

\* Variant: the equality test of line 87 is missing.
diff_guilds_no_continue(oldd, new) ==
    DiffItems(oldd, new, 1) \o UnchangedItems(oldd, new, 1)

\* Variant: the transfer branch reports a join.
diff_guilds_transfer_as_join(oldd, new) ==
    [i \in DOMAIN DiffItems(oldd, new, 1) |->
        LET m == DiffItems(oldd, new, 1)[i]
        IN IF m[1] = "gewechselt" THEN <<"beigetreten", m[2], m[4]>> ELSE m]

diff_guilds(oldd, new) == DiffItems(oldd, new, 1)

\* ---------------------------------------------------------------- process
\* Variant: the loaded state is written back instead of the snapshot.
SavedOld == old

\* The data main hands to save_state.
SavedData == current

NeverSeen == "<never>"

\* The messages about audited players that this process got a 2xx answer for.
Delivered ==
    IF posts # <<>> /\ "discord" \notin err
    THEN {posts[1][i] : i \in {j \in DOMAIN posts[1] : posts[1][j][2] \in audited}}
    ELSE {}

\* A process that returned 0 has shown and saved current.
Observed ==
    [p \in watched |-> IF p \in Keys(current) THEN Get(current, p, "") ELSE lastSeen[p]]

InitProcess ==
    /\ stateFile = NoFile
    /\ pc = "idle"
    /\ webhook = FALSE
    /\ current = <<>>
    /\ old = <<>>
    /\ messages = <<>>
    /\ posts = <<>>
    /\ err = {}
    /\ out = <<>>
    /\ exit = 0
    /\ loads = 0
    /\ writes = 0
    /\ lastSaved = {}
    /\ fetches = 0
    /\ lastDelivered = {}

Init ==
    /\ InitProcess
    /\ watched = {}
    /\ audited = {}
    /\ lastSeen = [p \in watched |-> NeverSeen]

\* Variant: main returns 1 when DISCORD_WEBHOOK_URL is missing.
Start_webhook_required ==
    /\ pc \in {"idle", "exited"}
    /\ \E w \in BOOLEAN :
          /\ webhook' = w
          /\ err' = IF w THEN {} ELSE {"webhook_fehlt"}
          /\ IF w
             THEN pc' = "fetch" /\ UNCHANGED <<exit, lastSaved, lastDelivered>>
             ELSE pc' = "exited" /\ exit' = 1 /\ lastSaved' = {} /\ lastDelivered' = {}
    /\ current' = <<>>
    /\ old' = <<>>
    /\ messages' = <<>>
    /\ posts' = <<>>
    /\ out' = <<>>
    /\ loads' = 0
    /\ writes' = 0
    /\ fetches' = 0
    /\ UNCHANGED <<stateFile, watched, audited, lastSeen>>

\* A new process: module import reads the environment, main() starts.
Start ==
    /\ pc \in {"idle", "exited"}
    /\ \E w \in BOOLEAN :
          /\ webhook' = w
          /\ err' = IF w THEN {} ELSE {"webhook_fehlt"}
    /\ pc' = "fetch"
    /\ current' = <<>>
    /\ old' = <<>>
    /\ messages' = <<>>
    /\ posts' = <<>>
    /\ out' = <<>>
    /\ loads' = 0
    /\ writes' = 0
    /\ fetches' = 0
    /\ UNCHANGED <<stateFile, exit, lastSaved, watched, audited, lastSeen, lastDelivered>>

FetchOk ==
    /\ pc = "fetch"
    /\ \E s \in Dicts : current' = s
    /\ fetches' = fetches + 1
    /\ pc' = "load"
    /\ UNCHANGED <<watched, audited, lastSeen, lastDelivered>>
    /\ UNCHANGED <<stateFile, webhook, old, messages, posts, err, out, exit,
                   loads, writes, lastSaved>>

\* Variant: the return of line 117 is missing, main goes on without a snapshot.
FetchFail_continue ==
    /\ pc = "fetch"
    /\ fetches' = fetches + 1
    /\ err' = err \cup {"abruf"}
    /\ pc' = "load"
    /\ UNCHANGED <<stateFile, webhook, current, old, messages, posts, out, exit,
                   loads, writes, lastSaved, watched, audited, lastSeen,
                   lastDelivered>>

FetchFail ==
    /\ pc = "fetch"
    /\ fetches' = fetches + 1
    /\ err' = err \cup {"abruf"}
    /\ exit' = 1
    /\ pc' = "exited"
    /\ lastSaved' = {}
    /\ lastDelivered' = Delivered
    /\ UNCHANGED <<watched, audited, lastSeen>>
    /\ UNCHANGED <<stateFile, webhook, current, old, messages, posts, out,
                   loads, writes>>

load_state ==
    /\ pc = "load"
    /\ loads' = loads + 1
    /\ IF ~stateFile.exists
       THEN /\ old' = <<>>
            /\ pc' = "diff"
            /\ UNCHANGED <<err, exit, lastSaved, lastDelivered>>
       ELSE IF WellFormed(stateFile.text)
       THEN /\ old' = json_load(stateFile.text)
            /\ pc' = "diff"
            /\ UNCHANGED <<err, exit, lastSaved, lastDelivered>>
       ELSE /\ err' = err \cup {"traceback"}
            /\ exit' = 1
            /\ pc' = "exited"
            /\ lastSaved' = {}
            /\ lastDelivered' = Delivered
            /\ UNCHANGED old
    /\ UNCHANGED <<stateFile, webhook, current, messages, posts, out, writes,
                   fetches, watched, audited, lastSeen>>

Diff ==
    /\ pc = "diff"
    /\ messages' = diff_guilds(old, current)
    /\ pc' = "post"
    /\ UNCHANGED <<stateFile, webhook, current, old, posts, err, out, exit,
                   loads, writes, lastSaved>>
    /\ UNCHANGED <<fetches, watched, audited, lastSeen, lastDelivered>>

\* Variant: without messages the state is not written ("nothing changed").
PostSkip_no_save ==
    /\ pc = "post"
    /\ ~(webhook /\ messages # <<>>)
    /\ pc' = IF messages = <<>> THEN "log" ELSE "save"
    /\ UNCHANGED <<stateFile, webhook, current, old, messages, posts, err, out,
                   exit, loads, writes, lastSaved>>
    /\ UNCHANGED <<fetches, watched, audited, lastSeen, lastDelivered>>

PostSkip ==
    /\ pc = "post"
    /\ ~(webhook /\ messages # <<>>)
    /\ pc' = "save"
    /\ UNCHANGED <<stateFile, webhook, current, old, messages, posts, err, out,
                   exit, loads, writes, lastSaved>>
    /\ UNCHANGED <<fetches, watched, audited, lastSeen, lastDelivered>>

PostOk ==
    /\ pc = "post"
    /\ webhook /\ messages # <<>>
    /\ posts' = Append(posts, messages)
    /\ pc' = "save"
    /\ UNCHANGED <<stateFile, webhook, current, old, messages, err, out, exit,
                   loads, writes, lastSaved>>
    /\ UNCHANGED <<fetches, watched, audited, lastSeen, lastDelivered>>

\* Variant: a failed POST is sent once more.
PostFail_retry ==
    /\ pc = "post"
    /\ webhook /\ messages # <<>>
    /\ posts' = posts \o <<messages, messages>>
    /\ err' = err \cup {"discord"}
    /\ pc' = "save"
    /\ UNCHANGED <<stateFile, webhook, current, old, messages, out, exit,
                   loads, writes, lastSaved>>
    /\ UNCHANGED <<fetches, watched, audited, lastSeen, lastDelivered>>

\* Variant: the notification is not wrapped in try/except, its exception ends
\* the process.
PostFail_abort ==
    /\ pc = "post"
    /\ webhook /\ messages # <<>>
    /\ posts' = Append(posts, messages)
    /\ err' = err \cup {"discord"}
    /\ exit' = 1
    /\ pc' = "exited"
    /\ lastSaved' = {}
    /\ lastDelivered' = {}
    /\ UNCHANGED <<stateFile, webhook, current, old, messages, out, loads,
                   writes, fetches, watched, audited, lastSeen>>

PostFail ==
    /\ pc = "post"
    /\ webhook /\ messages # <<>>
    /\ posts' = Append(posts, messages)
    /\ err' = err \cup {"discord"}
    /\ pc' = "save"
    /\ UNCHANGED <<stateFile, webhook, current, old, messages, out, exit,
                   loads, writes, lastSaved>>
    /\ UNCHANGED <<fetches, watched, audited, lastSeen, lastDelivered>>

\* path.open("w"): the file is created or truncated before anything is written.
\* The record of the preceding process's deliveries ends here: this process
\* has made its own notification attempt.
SaveOpen ==
    /\ pc = "save"
    /\ stateFile' = [exists |-> TRUE, text |-> <<>>]
    /\ pc' = "dump"
    /\ UNCHANGED <<webhook, current, old, messages, posts, err, out, exit,
                   loads, writes, lastSaved>>
    /\ lastDelivered' = {}
    /\ UNCHANGED <<fetches, watched, audited, lastSeen>>

\* Variant: the return of line 134 is missing, main goes on to return 0.
SaveOpenFail_swallowed ==
    /\ pc = "save"
    /\ err' = err \cup {"speichern"}
    /\ pc' = "log"
    /\ UNCHANGED <<stateFile, webhook, current, old, messages, posts, out, exit,
                   loads, writes, lastSaved, fetches, watched, audited, lastSeen,
                   lastDelivered>>

SaveOpenFail ==
    /\ pc = "save"
    /\ err' = err \cup {"speichern"}
    /\ exit' = 1
    /\ pc' = "exited"
    /\ lastSaved' = {}
    /\ UNCHANGED <<stateFile, webhook, current, old, messages, posts, out,
                   loads, writes>>
    /\ lastDelivered' = Delivered
    /\ UNCHANGED <<fetches, watched, audited, lastSeen>>

\* json.dump writes the text piece by piece.
SaveWrite ==
    /\ pc = "dump"
    /\ Len(stateFile.text) < Len(json_dump(SavedData))
    /\ stateFile' = [stateFile EXCEPT
                        !.text = Append(@, json_dump(SavedData)[Len(@) + 1])]
    /\ UNCHANGED <<pc, webhook, current, old, messages, posts, err, out, exit,
                   loads, writes, lastSaved>>
    /\ UNCHANGED <<fetches, watched, audited, lastSeen, lastDelivered>>

SaveWriteFail ==
    /\ pc = "dump"
    /\ Len(stateFile.text) < Len(json_dump(SavedData))
    /\ err' = err \cup {"speichern"}
    /\ exit' = 1
    /\ pc' = "exited"
    /\ lastSaved' = {}
    /\ UNCHANGED <<stateFile, webhook, current, old, messages, posts, out,
                   loads, writes>>
    /\ lastDelivered' = Delivered
    /\ UNCHANGED <<fetches, watched, audited, lastSeen>>

SaveClose ==
    /\ pc = "dump"
    /\ Len(stateFile.text) = Len(json_dump(SavedData))
    /\ writes' = writes + 1
    /\ pc' = "log"
    /\ UNCHANGED <<stateFile, webhook, current, old, messages, posts, err, out,
                   exit, loads, lastSaved>>
    /\ UNCHANGED <<fetches, watched, audited, lastSeen, lastDelivered>>

\* The process is killed while the file is open for writing.
Crash ==
    /\ pc = "dump"
    /\ exit' = 137
    /\ pc' = "exited"
    /\ lastSaved' = {}
    /\ UNCHANGED <<stateFile, webhook, current, old, messages, posts, err, out,
                   loads, writes>>
    /\ lastDelivered' = Delivered
    /\ UNCHANGED <<fetches, watched, audited, lastSeen>>

Return ==
    /\ pc = "log"
    /\ out' = IF messages # <<>>
              THEN <<<<"Aenderungen">>>> \o messages
              ELSE <<<<"Keine Aenderungen">>>>
    /\ exit' = 0
    /\ pc' = "exited"
    /\ lastSaved' = {AsMap(current)}
    /\ UNCHANGED <<stateFile, webhook, current, old, messages, posts, err,
                   loads, writes>>
    /\ lastDelivered' = Delivered
    /\ lastSeen' = Observed
    /\ UNCHANGED <<fetches, watched, audited>>

Next ==
    \/ Start
    \/ FetchOk
    \/ FetchFail
    \/ load_state
    \/ Diff
    \/ PostSkip
    \/ PostOk
    \/ PostFail
    \/ SaveOpen
    \/ SaveOpenFail
    \/ SaveWrite
    \/ SaveWriteFail
    \/ SaveClose
    \/ Crash
    \/ Return

Spec == Init /\ [][Next]_vars

\* The same processes with the observations of one player recorded.
InitWatch ==
    /\ InitProcess
    /\ \E p \in Names : watched = {p}
    /\ audited = {}
    /\ lastSeen = [p \in watched |-> NeverSeen]

\* The same processes with the deliveries about one player recorded.
InitAudit ==
    /\ InitProcess
    /\ watched = {}
    /\ audited = {NamePool[1]}
    /\ lastSeen = [p \in watched |-> NeverSeen]

SpecAudit == InitAudit /\ [][Next]_vars

\* Successful runs only: nothing fails but, possibly, the notification.
NextOk ==
    \/ Start
    \/ FetchOk
    \/ load_state
    \/ Diff
    \/ PostSkip
    \/ PostOk
    \/ PostFail
    \/ SaveOpen
    \/ SaveWrite
    \/ SaveClose
    \/ Return

SpecOk == InitWatch /\ [][NextOk]_vars

TypeOK ==
    /\ stateFile.exists \in BOOLEAN
    /\ pc \in {"idle", "fetch", "load", "diff", "post", "save", "dump", "log", "exited"}
    /\ webhook \in BOOLEAN
    /\ current \in Dicts
    /\ exit \in {0, 1, 137}
    /\ loads \in 0..1
    /\ writes \in 0..1
    /\ fetches \in 0..1
    /\ watched \subseteq Names
    /\ audited \subseteq Names
    /\ DOMAIN lastSeen = watched

\* ---------------------------------------------------------------- properties
\* load_state has returned a mapping in this process.
LoadReturned == loads = 1 /\ "traceback" \notin err

\* diff_guilds has returned in this process.
Diffed == LoadReturned /\ pc # "diff"

FileValid == stateFile.exists /\ WellFormed(stateFile.text)

FileKeys == IF FileValid THEN Keys(json_load(stateFile.text)) ELSE {}

MessagesAbout(p) == {messages[i] : i \in {j \in DOMAIN messages : messages[j][2] = p}}

CountAbout(p) == Cardinality({j \in DOMAIN messages : messages[j][2] = p})

\* C1: after a successful run that loaded a non-empty state P with snapshot S,
\* the file holds P overwritten by S: S's value for every player of S, and P's
\* entry for every player of P that is not in S.
C1_MergedState ==
    (pc = "exited" /\ exit = 0 /\ LoadReturned /\ old # <<>>) =>
        /\ FileValid
        /\ \A p \in Keys(current) :
              /\ p \in FileKeys
              /\ Get(json_load(stateFile.text), p, "") = Get(current, p, "")
        /\ \A p \in Keys(old) \ Keys(current) :
              /\ p \in FileKeys
              /\ Get(json_load(stateFile.text), p, "") = Get(old, p, "")

\* C2: when a run has ended, every player that was in the state file when the
\* run loaded it is still in the state file, and so is every player of a
\* snapshot the run saved.
C2_KeysNeverShrink ==
    (pc = "exited" /\ LoadReturned) =>
        /\ Keys(old) \subseteq FileKeys
        /\ (writes = 1 => Keys(current) \subseteq FileKeys)

\* C3: a run that loaded an empty (or missing) state emits no event and makes
\* no notification POST.
C3_FirstRunSilent ==
    (LoadReturned /\ old = <<>>) => (messages = <<>> /\ posts = <<>>)

\* C4: a run that loaded an empty (or missing) state and completed its save
\* has persisted exactly the snapshot and, once it has exited, exited with 0.
C4_BaselinePersisted ==
    (LoadReturned /\ old = <<>> /\ writes = 1) =>
        /\ FileValid
        /\ AsMap(json_load(stateFile.text)) = AsMap(current)
        /\ (pc = "exited" => exit = 0)

C4_Witness ==
    /\ pc = "exited" /\ exit = 0
    /\ LoadReturned /\ old = <<>> /\ writes = 1
    /\ Len(current) = NumPlayers
    /\ \E i \in DOMAIN current : current[i][2] = ""
    /\ \E i \in DOMAIN current : current[i][2] # ""

\* C5: no message is ever about a player that is not in the snapshot.
C5_NoEventForAbsent ==
    \A i \in DOMAIN messages : messages[i][2] \in Keys(current)

C5_Witness ==
    /\ Diffed
    /\ messages # <<>>
    /\ \E i \in DOMAIN old : old[i][1] \notin Keys(current) /\ old[i][2] # ""

\* C6: in a run that loaded a non-empty state, a player has exactly one message
\* if it is in the snapshot with a guild different from the loaded one (a
\* player not in the loaded state counting as guild ""), and none otherwise.
C6_EventIffChanged ==
    (Diffed /\ old # <<>>) =>
        \A p \in Names :
            CountAbout(p) =
                IF p \in Keys(current) /\ Get(current, p, "") # Get(old, p, "")
                THEN 1 ELSE 0

C6_Witness ==
    /\ Diffed /\ old # <<>>
    /\ \E p, q \in Keys(current) :
          /\ p # q
          /\ CountAbout(p) = 1
          /\ CountAbout(q) = 0
          /\ Get(current, q, "") # ""

\* C7: the message about a player of the snapshot is fixed by (old guild, new
\* guild): join for ""/absent -> g, leave for g -> "", transfer for g -> h,
\* nothing for equal guilds or for a never-seen player without a guild.
C7_EventKind ==
    Diffed =>
        \A i \in DOMAIN current :
            LET p == current[i][1]
                n == current[i][2]
                o == Get(old, p, "")
            IN MessagesAbout(p) =
                  IF o = n THEN {}
                  ELSE IF o = "" THEN {<<"beigetreten", p, n>>}
                  ELSE IF n = "" THEN {<<"verlassen", p, o>>}
                  ELSE {<<"gewechselt", p, o, n>>}

C7_Witness ==
    /\ Diffed
    /\ \E i \in DOMAIN messages : messages[i][1] = "gewechselt"
    /\ \E i \in DOMAIN messages : messages[i][1] # "gewechselt"

\* C8: a run whose snapshot equals the one the immediately preceding run saved
\* emits no event and makes no notification POST.
C8_Idempotent ==
    (Diffed /\ pc # "exited" /\ lastSaved = {AsMap(current)}) =>
        (messages = <<>> /\ posts = <<>>)

C8_Witness ==
    /\ pc = "log"
    /\ webhook
    /\ lastSaved = {AsMap(current)}
    /\ \E i \in DOMAIN current : current[i][2] # ""
    /\ \E i \in DOMAIN current : current[i][2] = ""

\* C9: load_state on an existing file whose content is not valid JSON returns
\* the empty mapping and the run goes on.
C9_CorruptStateRecovered ==
    [][(pc = "load" /\ stateFile.exists /\ ~WellFormed(stateFile.text))
          => (pc' = "diff" /\ old' = <<>>)]_vars

\* C10: from the load on, the state file holds either the complete previous
\* state (what the run loaded) or the complete new state, nothing else.
C10_AtomicSave ==
    LoadReturned =>
        \/ IF stateFile.exists
           THEN WellFormed(stateFile.text) /\ json_load(stateFile.text) = old
           ELSE old = <<>>
        \/ stateFile = [exists |-> TRUE, text |-> json_dump(SavedData)]

FileIsNew == stateFile = [exists |-> TRUE, text |-> json_dump(SavedData)]

\* C11: a run whose fetch or parse fails ends with a non-zero status without
\* having loaded, posted or written anything, the state file as it was.
C11_FetchFailure ==
    [][("abruf" \in err') =>
          /\ pc' = "exited"
          /\ exit' # 0
          /\ stateFile' = stateFile
          /\ posts' = <<>>
          /\ loads' = 0
          /\ writes' = 0]_vars

C11_Witness ==
    /\ "abruf" \in err
    /\ webhook
    /\ FileValid
    /\ FileKeys # {}

\* C12: a run whose notification POST failed still writes the state; it exits
\* with 0 when the write completes, and exits without a completed write only
\* when the save itself failed or the process was killed while writing.
C12_PostFailureNotFatal ==
    ("discord" \in err) =>
        /\ pc \in {"save", "dump", "log", "exited"}
        /\ (pc = "exited" =>
               IF writes = 1
               THEN exit = 0 /\ FileIsNew
               ELSE "speichern" \in err \/ exit = 137)

C12_Witness ==
    /\ "discord" \in err
    /\ pc = "exited"
    /\ exit = 0
    /\ writes = 1
    /\ current # <<>>

\* C13: a run whose state write failed has exited with a non-zero status,
\* whatever its events and the outcome of its notification.
C13_SaveFailureFatal ==
    ("speichern" \in err) => (pc = "exited" /\ exit # 0 /\ writes = 0)

C13_Witness ==
    /\ "speichern" \in err
    /\ posts # <<>>
    /\ "discord" \notin err
    /\ pc = "exited"

\* C14: a process calls fetch_html once and no more, makes at most one POST,
\* and a POST is made only with a webhook configured and a non-empty message
\* list, all of which it carries.
C14_OneFetchOnePost ==
    /\ fetches <= 1
    /\ (pc \notin {"idle", "fetch"} => fetches = 1)
    /\ Len(posts) <= 1
    /\ (posts # <<>> => (webhook /\ messages # <<>> /\ posts[1] = messages))

C14_Witness ==
    /\ pc = "exited"
    /\ "discord" \in err
    /\ Len(posts) = 1
    /\ Len(posts[1]) = NumPlayers

\* C15: without a webhook a process makes no POST, still computes the messages,
\* and exits with 0 after saving the snapshot and printing the messages (or the
\* no-changes line) unless fetch, load or save failed or it was killed.
C15_NoWebhookNotAnError ==
    ~webhook =>
        /\ posts = <<>>
        /\ (Diffed => messages = diff_guilds(old, current))
        /\ (pc = "exited" =>
               \/ /\ exit = 0
                  /\ writes = 1
                  /\ FileIsNew
                  /\ out = IF messages # <<>>
                           THEN <<<<"Aenderungen">>>> \o messages
                           ELSE <<<<"Keine Aenderungen">>>>
               \/ "abruf" \in err
               \/ "traceback" \in err
               \/ "speichern" \in err
               \/ exit = 137)

C15_Witness ==
    /\ ~webhook
    /\ pc = "exited"
    /\ exit = 0
    /\ messages # <<>>
    /\ Len(out) = Len(messages) + 1

\* C16: load_state on the file a completed save_state(m) left returns a
\* mapping equal to m.
C16_RoundTrip ==
    [][(pc = "load" /\ lastSaved # {}) =>
          (pc' = "diff" /\ lastSaved = {AsMap(old')})]_vars

C16_Witness ==
    /\ pc = "diff"
    /\ lastSaved = {AsMap(old)}
    /\ Len(old) = NumPlayers
    /\ \E i \in DOMAIN old : old[i][2] = ""
    /\ \E i \in DOMAIN old : old[i][2] # ""

\* C17: in a sequence of successful runs, the messages about a player of the
\* snapshot follow from the guild g it was last observed with in an earlier
\* run and its guild h now: none when h = g, a leave from g when h is empty
\* and g is not, a transfer from g to h when both are non-empty and differ,
\* and never a join when g is non-empty.
C17_LastObservedGuild ==
    (Diffed /\ pc # "exited") =>
        \A p \in watched \cap Keys(current) :
            LET g == lastSeen[p]
                h == Get(current, p, "")
            IN g # NeverSeen =>
                  /\ (h = g => MessagesAbout(p) = {})
                  /\ (g # "" /\ h = "" => MessagesAbout(p) = {<<"verlassen", p, g>>})
                  /\ (g # "" /\ h # "" /\ h # g =>
                         MessagesAbout(p) = {<<"gewechselt", p, g, h>>})
                  /\ (g # "" => \A m \in MessagesAbout(p) : m[1] # "beigetreten")

\* C18 (as claimed): a message about a player that the preceding run delivered
\* is not delivered again by this run, whether or not the preceding run saved.
C18_DeliveredOnce ==
    pc = "save" => Delivered \cap lastDelivered = {}

\* C18 (amended): a message about a player that the preceding run delivered is
\* not delivered again by this run, provided the preceding run saved its state
\* and returned 0.
C18_DeliveredOnceIfSaved ==
    (pc = "save" /\ lastSaved # {}) => Delivered \cap lastDelivered = {}

C18_Witness ==
    /\ pc = "save"
    /\ lastSaved # {}
    /\ lastDelivered # {}
    /\ Delivered # {}

\* The order of the steps of one process, without the clause on loading.
RunOrder ==
    /\ loads' <= 1
    /\ writes' <= 1
    /\ (loads' = loads + 1 => (posts = <<>> /\ writes = 0 /\ pc = "load"))
    /\ ((posts' # posts /\ posts' # <<>>) => (loads = 1 /\ writes = 0 /\ pc = "post"))
    /\ (pc' = "save" => pc = "post")
    /\ (stateFile' # stateFile => (pc \in {"save", "dump"} /\ loads = 1 /\ writes = 0))
    /\ ((pc' = "exited" /\ exit' = 0) => (loads' = 1 /\ writes' = 1 /\ pc = "log"))

\* C19 (as claimed): every process loads the state exactly once, makes its
\* notification attempt after the load, writes the file at most once and only
\* after that attempt, and has completed one write when it exits with 0.
C19_RunOrder ==
    [][RunOrder /\ (pc' = "exited" => loads' = 1)]_vars

\* C19 (amended): as claimed, but the state is loaded exactly once only by a
\* process whose fetch and parse succeeded; one whose fetch or parse failed
\* never loads it.
C19_RunOrderAfterFetch ==
    [][RunOrder /\ (pc' = "exited" => loads' = IF "abruf" \in err' THEN 0 ELSE 1)]_vars

C19_Witness ==
    /\ pc = "exited"
    /\ exit = 0
    /\ loads = 1
    /\ writes = 1
    /\ Len(posts) = 1
====
